---- MODULE Spec2Model ----
(***************************************************************************)
(* A state-machine model of the photo booth component (PhotoBooth.jsx):    *)
(* the camera acquisition, the three-shot countdown sequence driven by     *)
(* setInterval / setTimeout callbacks, the capture step, the strip render  *)
(* effect with its three asynchronous image loads, and the export.         *)
(***************************************************************************)
EXTENDS Integers, Sequences, FiniteSets, TLC

\* ------------------------------------------------------------------ bounds
\* Sequences (clicks on the trigger) explored in one run.
MaxSessions == 2
\* The first MaxFilter entries of FILTERS are offered to the user.
MaxFilter == 2
\* Math.random() is taken to select one of the first MaxPrompt prompts.
MaxPrompt == 2
\* Sequences explored when the strip rendering is explored with them.
MaxRenders == 1
\* Source images of every width and height up to MaxSide are cropped.
MaxSide == 4

\* --------------------------------------------------------------- catalogs
FILTERS ==
  << [id |-> "normal",  canvasFilter |-> "none"],
     [id |-> "warm",    canvasFilter |-> "sepia(30%) contrast(110%) saturate(125%) hue-rotate(-10deg)"],
     [id |-> "vintage", canvasFilter |-> "sepia(60%) contrast(90%) brightness(90%) saturate(85%)"],
     [id |-> "bw",      canvasFilter |-> "grayscale(100%) contrast(110%) brightness(110%)"],
     [id |-> "noir",    canvasFilter |-> "grayscale(100%) contrast(150%) brightness(90%)"],
     [id |-> "soft",    canvasFilter |-> "contrast(90%) brightness(110%) saturate(85%)"],
     [id |-> "cyber",   canvasFilter |-> "contrast(125%) saturate(150%) hue-rotate(180deg) brightness(110%)"],
     [id |-> "cool",    canvasFilter |-> "hue-rotate(30deg) saturate(90%) contrast(110%)"] >>

OVERLAYS == << "none", "hearts", "sparkles", "vignette", "grain" >>

PROMPTS ==
  << "Lean in close...", "Give a gentle hug!", "Big smiles!", "Look at each other...",
     "Blow a kiss!", "Make a silly face!", "Strike a pose!", "Chin up, smile!" >>

\* A carousel that offers one entry the catalog does not hold.
FilterChoices_Custom ==
  { FILTERS[k] : k \in { j \in 1..Len(FILTERS) : j <= MaxFilter } }
    \cup { [id |-> "custom", canvasFilter |-> "blur(2px)"] }
\* The filters / prompts a run draws its inputs from.
FilterChoices == { FILTERS[k] : k \in { j \in 1..Len(FILTERS) : j <= MaxFilter } }
OverlayChoices == { OVERLAYS[k] : k \in 1..Len(OVERLAYS) }
PromptChoices == { PROMPTS[k] : k \in { j \in 1..Len(PROMPTS) : j <= MaxPrompt } }

\* Intrinsic sizes a video element reports once its metadata is loaded.
VideoSizes == { <<640, 480>>, <<1920, 1080>> }

\* The sizes the crop is computed for: the two above and every small one.
CropSizes == VideoSizes \cup ((1..MaxSide) \X (1..MaxSide))

\* ------------------------------------------------------- layout constants
photoWidth == 600
photoHeight == 450
gap == 30
sidePadding == 80
topPadding == 60
bottomPadding == 100
totalWidth == photoWidth + (sidePadding * 2)
\* A strip without the bottom padding that holds the footer.
totalHeight_NoFooterRoom == topPadding + (photoHeight * 3) + (gap * 2)
totalHeight == topPadding + (photoHeight * 3) + (gap * 2) + bottomPadding
sprocketWidth == 20
sprocketHeight == 30
sprocketGap == 40

\* ------------------------------------------------------------------ state
VARIABLES
  camera,         \* startCamera: "pending" while getUserMedia is awaited, then "done"
  stream,         \* useState(null): "null" or "mediaStream"
  error,          \* useState(null): "null" or the message
  mode,           \* "idle", "countdown", "review"
  photos,         \* the session: sequence of entries appended by setPhotos
  countdown,      \* <<>> for null, <<n>> for the number n
  currentFilter,  \* an entry of FILTERS
  currentOverlay, \* an entry of OVERLAYS
  currentPrompt,  \* "" or an entry of PROMPTS
  flashActive,
  videoSize,      \* <<videoWidth, videoHeight>> of the mounted <video> element
  intervals,      \* pending setInterval callbacks of runSequence
  settles,        \* pending setTimeout(..., 1000) callbacks of runSequence
  flashes,        \* pending setTimeout(..., 150) callbacks of capturePhoto
  sequences,      \* number of startSequence calls so far
  captureCalls,   \* number of capturePhoto calls since the last startSequence
  ctx,            \* drawing state of the strip canvas' 2d context
  stripCanvas,    \* [width, height, ops]: the strip canvas and what was drawn on it
  imgs,           \* Image objects whose load is pending
  download,       \* what the latest downloadStrip exported
  mounted,        \* the component is mounted (the camera effect's cleanup has not run)
  currentStream,  \* `let currentStream` of the camera effect: "null" or "mediaStream"
  tracks          \* the tracks of the acquired stream: "none", "live" or "stopped"

camVars == << camera, stream, error >>
uiVars == << currentFilter, currentOverlay >>
seqVars == << mode, photos, countdown, currentPrompt, flashActive, intervals,
              settles, flashes, sequences, captureCalls >>
stripVars == << ctx, stripCanvas, imgs >>
mountVars == << mounted, currentStream, tracks >>
vars == << camVars, uiVars, seqVars, videoSize, stripVars, download, mountVars >>


\* ------------------------------------------------------- what is mounted
\* A component without the early return for the error screen.
ErrorScreen_Never == FALSE
\* `if (error) return <error screen>`: nothing else is rendered.
ErrorScreen == error # "null"
\* The hidden canvases (canvasRef, stripCanvasRef) are part of the main tree.
CanvasMounted == ~ErrorScreen
\* <video ref={videoRef}> is rendered under `mode !== 'review'` and `stream ?`.
VideoMounted == ~ErrorScreen /\ mode # "review" /\ stream # "null"
\* A trigger that stays on screen during the countdown.
IdleControlsShown_InCountdown == ~ErrorScreen /\ mode # "review"
\* The filter carousel, the trigger and the overlay buttons: `mode === 'idle'`.
IdleControlsShown == ~ErrorScreen /\ mode = "idle"
\* A review panel that is on screen during the countdown as well.
ReviewPanelShown_InCountdown == ~ErrorScreen /\ mode # "idle"
\* The download / share / new-session buttons: `mode === 'review'`.
ReviewPanelShown == ~ErrorScreen /\ mode = "review"

\* A prompt that stays on screen during the final second.
PromptVisible_UntilZero ==
  /\ ~ErrorScreen
  /\ mode = "countdown"
  /\ currentPrompt # ""
  /\ countdown # <<>> /\ countdown[1] > 0
\* The prompt bubble: `mode === 'countdown'` and `currentPrompt && countdown > 1`.
PromptVisible ==
  /\ ~ErrorScreen
  /\ mode = "countdown"
  /\ currentPrompt # ""
  /\ countdown # <<>> /\ countdown[1] > 1

\* -------------------------------------------------------------- capture
\* canvas.toDataURL('image/jpeg', 0.95): a canvas without pixels yields "data:,".
toDataURL(w, h) == IF w = 0 \/ h = 0 THEN "data:," ELSE "data:image/jpeg;q=0.95"

\* capturePhoto(): the early return yields undefined and triggers no flash.
capturePhoto(videoRef, canvasRef, size) ==
  IF ~videoRef \/ ~canvasRef
    THEN [url |-> "undefined", w |-> 0, h |-> 0, flash |-> FALSE]
    ELSE [url |-> toDataURL(size[1], size[2]), w |-> size[1], h |-> size[2],
          flash |-> TRUE]

\* An <img> fires onload only for a source the browser can decode.
Decodable(url) == url = "data:image/jpeg;q=0.95"

\* ------------------------------------------------------- strip rendering
DefaultCtx ==
  [filter |-> "none", textAlign |-> "start", font |-> "10px sans-serif",
   fillStyle |-> "#000000"]

\* One drawing call on the strip canvas, with the context state it ran under.
Draw(name, i, seq, x, y, c) ==
  [op |-> name, i |-> i, seq |-> seq, x |-> x, y |-> y, filter |-> c.filter,
   textAlign |-> c.textAlign, font |-> c.font, fillStyle |-> c.fillStyle,
   src |-> <<>>]

\* The numbers of the crop calculation, kept as exact fractions <<n, d>>
\* with d > 0.
Div(a, b) == << a[1] * b[2], a[2] * b[1] >>
Mul(a, b) == << a[1] * b[1], a[2] * b[2] >>
Sub(a, b) == << a[1] * b[2] - b[1] * a[2], a[2] * b[2] >>
Gt(a, b) == a[1] * b[2] > b[1] * a[2]

\* A crop anchored at the top left corner instead of the centre.
Crop_TopLeft(sWidth, sHeight) ==
  LET sRatio == Div(<<sWidth, 1>>, <<sHeight, 1>>)
      dRatio == Div(<<photoWidth, 1>>, <<photoHeight, 1>>)
  IN IF Gt(sRatio, dRatio)
       THEN LET sH == <<sHeight, 1>>
                sW == Mul(sH, dRatio)
            IN [sx |-> <<0, 1>>, sy |-> <<0, 1>>, sW |-> sW, sH |-> sH,
                sWidth |-> sWidth, sHeight |-> sHeight]
       ELSE LET sW == <<sWidth, 1>>
                sH == Div(sW, dRatio)
            IN [sx |-> <<0, 1>>, sy |-> <<0, 1>>, sW |-> sW, sH |-> sH,
                sWidth |-> sWidth, sHeight |-> sHeight]

\* Aspect Fit/Crop Calculation: the source rectangle (sx, sy, sW, sH) of an
\* image of size sWidth x sHeight.
Crop(sWidth, sHeight) ==
  LET sRatio == Div(<<sWidth, 1>>, <<sHeight, 1>>)
      dRatio == Div(<<photoWidth, 1>>, <<photoHeight, 1>>)
  IN IF Gt(sRatio, dRatio)
       THEN LET sH == <<sHeight, 1>>
                sW == Mul(sH, dRatio)
            IN [sx |-> Div(Sub(<<sWidth, 1>>, sW), <<2, 1>>), sy |-> <<0, 1>>,
                sW |-> sW, sH |-> sH, sWidth |-> sWidth, sHeight |-> sHeight]
       ELSE LET sW == <<sWidth, 1>>
                sH == Div(sW, dRatio)
            IN [sx |-> <<0, 1>>, sy |-> Div(Sub(<<sHeight, 1>>, sH), <<2, 1>>),
                sW |-> sW, sH |-> sH, sWidth |-> sWidth, sHeight |-> sHeight]

\* for (let y = 20; y < totalHeight; y += sprocketGap + sprocketHeight)
RECURSIVE SprocketRows(_)
SprocketRows(y) ==
  IF y < totalHeight
    THEN <<y>> \o SprocketRows(y + sprocketGap + sprocketHeight)
    ELSE <<>>

\* The synchronous part of the render effect: resize, background, sprockets,
\* then one Image per photo.  The result is the new canvas, context and images.
StripEffect(m, ph, f, o, canvasRef, oldCtx, oldCanvas, oldImgs) ==
  IF m = "review" /\ Len(ph) = 3 /\ canvasRef
    THEN LET bg == [DefaultCtx EXCEPT !.fillStyle = "#111111"]
             sp == [DefaultCtx EXCEPT !.fillStyle = "#e5e5e5"]
             rows == SprocketRows(20)
         IN [ctx |-> sp,
             canvas |-> [width |-> totalWidth, height |-> totalHeight,
                         ops |-> << Draw("fillRect", -1, 0, 0, 0, bg),
                                    Draw("sprockets", 2 * Len(rows), 0, 15, rows[1], sp) >>],
             imgs |-> oldImgs \cup
                        { [i |-> i, src |-> ph[i + 1], filter |-> f.canvasFilter,
                           overlay |-> o] : i \in 0..2 }]
    ELSE [ctx |-> oldCtx, canvas |-> oldCanvas, imgs |-> oldImgs]

\* img.onload of photo i: save, filter, drawImage, overlay, restore, footer.
OnLoad(img, c) ==
  LET yPos == topPadding + img.i * (photoHeight + gap)
      saved == c
      c1 == IF img.filter # "" THEN [c EXCEPT !.filter = img.filter] ELSE c
      cell == << [Draw("drawImage", img.i, img.src.seq, sidePadding, yPos, c1)
                    EXCEPT !.src = Crop(img.src.w, img.src.h)] >>
      vig == [c1 EXCEPT !.fillStyle = "gradient"]
      hrt == [c1 EXCEPT !.filter = "none", !.fillStyle = "rgba(255, 150, 150, 0.7)",
                        !.font = "40px serif"]
      deco == IF img.overlay = "vignette"
                THEN << Draw("vignette", img.i, img.src.seq, sidePadding, yPos, vig) >>
              ELSE IF img.overlay = "hearts"
                THEN << Draw("heart", img.i, img.src.seq, sidePadding + 20, yPos + 50, hrt),
                        Draw("heart", img.i, img.src.seq, sidePadding + photoWidth - 50,
                             yPos + photoHeight - 20, hrt) >>
              ELSE <<>>
      restored == saved
      title == [restored EXCEPT !.fillStyle = "#ffffff",
                                !.font = "bold 32px Courier New",
                                !.textAlign = "center"]
      date == [title EXCEPT !.fillStyle = "#888888", !.font = "16px Courier New"]
      footer == IF img.i = 2
                  THEN << Draw("footerTitle", -1, 0, totalWidth \div 2, totalHeight - 50, title),
                          Draw("footerDate", -1, 0, totalWidth \div 2, totalHeight - 25, date) >>
                  ELSE <<>>
  IN [ctx |-> IF img.i = 2 THEN date ELSE restored,
      ops |-> cell \o deco \o footer]


\* ------------------------------------------------------------- sequence
\* A sequence that stops one shot early.
runSequence_TwoShots(count, seq, m, oldPrompt, oldCountdown, p) ==
  IF count >= 2
    THEN [mode |-> "review", prompt |-> oldPrompt, countdown |-> oldCountdown,
          interval |-> {}]
    ELSE [mode |-> m, prompt |-> p, countdown |-> <<3>>,
          interval |-> { [seq |-> seq, count |-> count, timer |-> 3] }]

\* A sequence that runs one shot too many.
runSequence_FourShots(count, seq, m, oldPrompt, oldCountdown, p) ==
  IF count >= 4
    THEN [mode |-> "review", prompt |-> oldPrompt, countdown |-> oldCountdown,
          interval |-> {}]
    ELSE [mode |-> m, prompt |-> p, countdown |-> <<3>>,
          interval |-> { [seq |-> seq, count |-> count, timer |-> 3] }]

\* A runSequence without the `return` after setMode('review').
runSequence_NoReturn(count, seq, m, oldPrompt, oldCountdown, p) ==
  [mode |-> IF count >= 3 THEN "review" ELSE m, prompt |-> p, countdown |-> <<3>>,
   interval |-> { [seq |-> seq, count |-> count, timer |-> 3] }]

\* A countdown whose display starts one second late.
runSequence_DisplayFrom2(count, seq, m, oldPrompt, oldCountdown, p) ==
  IF count >= 3
    THEN [mode |-> "review", prompt |-> oldPrompt, countdown |-> oldCountdown,
          interval |-> {}]
    ELSE [mode |-> m, prompt |-> p, countdown |-> <<2>>,
          interval |-> { [seq |-> seq, count |-> count, timer |-> 3] }]

\* runSequence(count): what it sets, given the mode it was called under and
\* the prompt Math.random() selects.  `seq` tags the callback chain with the
\* startSequence call it descends from.
runSequence(count, seq, m, oldPrompt, oldCountdown, p) ==
  IF count >= 3
    THEN [mode |-> "review", prompt |-> oldPrompt, countdown |-> oldCountdown,
          interval |-> {}]
    ELSE [mode |-> m, prompt |-> p, countdown |-> <<3>>,
          interval |-> { [seq |-> seq, count |-> count, timer |-> 3] }]

\* The <video> element reports 0x0 from the moment it is (re)mounted until
\* its metadata is loaded; an unmounted element has no size.
VideoAfter(before, after, size) ==
  IF after /\ before THEN size ELSE <<0, 0>>

\* A commit that changes mode, photos, currentFilter or currentOverlay: the
\* new values, the <video> element's fate and the strip render effect.
Commit(m, ph, f, o) ==
  LET eff == StripEffect(m, ph, f, o, CanvasMounted, ctx, stripCanvas, imgs)
  IN /\ mode' = m
     /\ photos' = ph
     /\ currentFilter' = f
     /\ currentOverlay' = o
     /\ videoSize' = VideoAfter(VideoMounted,
                                ~ErrorScreen /\ m # "review" /\ stream # "null",
                                videoSize)
     /\ ctx' = eff.ctx
     /\ stripCanvas' = eff.canvas
     /\ imgs' = eff.imgs

\* The cells of the strip that show a photo of the session `ph`.
CellsDrawn(ops, ph) ==
  { i \in 0..2 : \E k \in 1..Len(ops) :
       /\ ops[k].op = "drawImage"
       /\ ops[k].i = i
       /\ i < Len(ph)
       /\ ops[k].seq = ph[i + 1].seq }

FooterDrawn(ops) == \E k \in 1..Len(ops) : ops[k].op = "footerDate"

\* The images of the session `ph` whose load has not completed.
Loading(pending, ph) ==
  { img \in pending : img.i < Len(ph) /\ img.src = ph[img.i + 1] }

\* No file has been exported in the current review (the record is kept for
\* the review it was made in: resetBooth starts a new one).
NoDownload == [done |-> FALSE, cells |-> {}, footer |-> FALSE, loading |-> 0]

Init ==
  /\ camera = "pending"
  /\ stream = "null"
  /\ error = "null"
  /\ mode = "idle"
  /\ photos = <<>>
  /\ countdown = <<>>
  /\ currentFilter = FILTERS[1]
  /\ currentOverlay = OVERLAYS[1]
  /\ currentPrompt = ""
  /\ flashActive = FALSE
  /\ videoSize = <<0, 0>>
  /\ intervals = {}
  /\ settles = {}
  /\ flashes = {}
  /\ sequences = 0
  /\ captureCalls = 0
  /\ ctx = DefaultCtx
  /\ stripCanvas = [width |-> 300, height |-> 150, ops |-> <<>>]
  /\ imgs = {}
  /\ download = NoDownload
  /\ mounted = TRUE
  /\ currentStream = "null"
  /\ tracks = "none"

\* getUserMedia resolves with a stream whose tracks are live:
\* currentStream = mediaStream; setStream(mediaStream); setError(null).
\* Setting the state of a component that has been unmounted does nothing.
CameraGranted ==
  /\ camera = "pending"
  /\ camera' = "done"
  /\ currentStream' = "mediaStream"
  /\ tracks' = "live"
  /\ stream' = IF mounted THEN "mediaStream" ELSE stream
  /\ error' = IF mounted THEN "null" ELSE error
  /\ videoSize' = <<0, 0>>
  /\ UNCHANGED << uiVars, seqVars, stripVars, download, mounted >>

\* getUserMedia rejects: setError(message).
CameraDenied ==
  /\ camera = "pending"
  /\ camera' = "done"
  /\ error' = IF mounted
               THEN "Unable to access camera. Please allow camera permissions to use the booth."
               ELSE error
  /\ videoSize' = <<0, 0>>
  /\ UNCHANGED << stream, uiVars, seqVars, stripVars, download, mountVars >>

\* The component unmounts and the cleanup of the camera effect runs:
\* if (currentStream) currentStream.getTracks().forEach(track => track.stop()).
Unmount ==
  /\ mounted
  /\ mounted' = FALSE
  /\ tracks' = IF currentStream # "null" THEN "stopped" ELSE tracks
  /\ UNCHANGED << camVars, uiVars, seqVars, videoSize, stripVars, download,
                  currentStream >>

\* The mounted <video> element loads the stream's metadata.
LoadedMetadata(size) ==
  /\ VideoMounted
  /\ videoSize = <<0, 0>>
  /\ videoSize' = size
  /\ UNCHANGED << camVars, mountVars, uiVars, seqVars, stripVars, download >>

\* onClick={() => setCurrentFilter(f)}
SelectFilter(f) ==
  /\ IdleControlsShown
  /\ f # currentFilter
  /\ Commit(mode, photos, f, currentOverlay)
  /\ UNCHANGED << camVars, mountVars, countdown, currentPrompt, flashActive, intervals, settles,
                  flashes, sequences, captureCalls, download >>

\* onClick={() => setCurrentOverlay(o)}
SelectOverlay(o) ==
  /\ IdleControlsShown
  /\ o # currentOverlay
  /\ Commit(mode, photos, currentFilter, o)
  /\ UNCHANGED << camVars, mountVars, countdown, currentPrompt, flashActive, intervals, settles,
                  flashes, sequences, captureCalls, download >>

\* onClick={startSequence}: setMode('countdown'); setPhotos([]); runSequence(0)
startSequence(p) ==
  /\ IdleControlsShown
  /\ sequences < MaxSessions
  /\ LET r == runSequence(0, sequences + 1, "countdown", currentPrompt, countdown, p)
     IN /\ Commit(r.mode, <<>>, currentFilter, currentOverlay)
        /\ currentPrompt' = r.prompt
        /\ countdown' = r.countdown
        /\ intervals' = intervals \cup r.interval
  /\ sequences' = sequences + 1
  /\ captureCalls' = 0
  /\ UNCHANGED << camVars, mountVars, flashActive, settles, flashes, download >>

\* One firing of the setInterval callback of runSequence(count).
Tick(iv) ==
  /\ iv \in intervals
  /\ LET timer == iv.timer - 1
         tag == [seq |-> iv.seq, count |-> iv.count]
         photo == capturePhoto(VideoMounted, CanvasMounted, videoSize)
     IN /\ countdown' = <<timer>>
        /\ IF timer = 0
             THEN /\ intervals' = intervals \ {iv}
                  /\ captureCalls' = captureCalls + 1
                  /\ flashActive' = (flashActive \/ photo.flash)
                  /\ flashes' = IF photo.flash THEN flashes \cup {tag} ELSE flashes
                  /\ Commit(mode,
                            Append(photos, [url |-> photo.url, w |-> photo.w,
                                            h |-> photo.h, seq |-> iv.seq,
                                            shot |-> iv.count]),
                            currentFilter, currentOverlay)
                  /\ settles' = settles \cup {tag}
             ELSE /\ intervals' = (intervals \ {iv}) \cup {[iv EXCEPT !.timer = timer]}
                  /\ UNCHANGED << mode, photos, uiVars, videoSize, stripVars,
                                  captureCalls, flashActive, flashes,
                                  settles >>
  /\ UNCHANGED << camVars, mountVars, currentPrompt, sequences, download >>

\* setTimeout(() => setFlashActive(false), 150)
FlashOff(f) ==
  /\ f \in flashes
  /\ flashes' = flashes \ {f}
  /\ flashActive' = FALSE
  /\ UNCHANGED << camVars, mountVars, uiVars, mode, photos, countdown, currentPrompt, intervals,
                  settles, sequences, captureCalls, videoSize, stripVars,
                  download >>

\* setTimeout(() => runSequence(count + 1), 1000).  It was set after the 150 ms
\* flash timeout of the same capture, which therefore fires first.
Settle(s, p) ==
  /\ s \in settles
  /\ s \notin flashes
  /\ settles' = settles \ {s}
  /\ LET r == runSequence(s.count + 1, s.seq, mode, currentPrompt, countdown, p)
     IN /\ currentPrompt' = r.prompt
        /\ countdown' = r.countdown
        /\ intervals' = intervals \cup r.interval
        /\ IF r.mode # mode
             THEN Commit(r.mode, photos, currentFilter, currentOverlay)
             ELSE UNCHANGED << mode, photos, uiVars, videoSize, stripVars >>
  /\ UNCHANGED << camVars, mountVars, flashActive, flashes, sequences, captureCalls,
                  download >>

\* onClick={resetBooth}: setPhotos([]); setMode('idle'); setCountdown(null)
resetBooth ==
  /\ ReviewPanelShown
  /\ Commit("idle", <<>>, currentFilter, currentOverlay)
  /\ countdown' = <<>>
  /\ download' = NoDownload
  /\ UNCHANGED << camVars, mountVars, currentPrompt, flashActive, intervals, settles, flashes,
                  sequences, captureCalls >>

\* img.onload
ImageLoad(img) ==
  /\ img \in imgs
  /\ Decodable(img.src.url)
  /\ LET r == OnLoad(img, ctx)
     IN /\ ctx' = r.ctx
        /\ stripCanvas' = [stripCanvas EXCEPT !.ops = @ \o r.ops]
  /\ imgs' = imgs \ {img}
  /\ UNCHANGED << camVars, mountVars, uiVars, seqVars, videoSize, download >>

\* The load fails (no onerror handler is installed): nothing is drawn.
ImageError(img) ==
  /\ img \in imgs
  /\ ~Decodable(img.src.url)
  /\ imgs' = imgs \ {img}
  /\ UNCHANGED << camVars, mountVars, uiVars, seqVars, videoSize, ctx, stripCanvas, download >>

\* onClick={downloadStrip}
downloadStrip ==
  /\ ReviewPanelShown
  /\ IF ~CanvasMounted \/ Len(photos) = 0
       THEN UNCHANGED download
       ELSE download' = [done |-> TRUE,
                         cells |-> CellsDrawn(stripCanvas.ops, photos),
                         footer |-> FooterDrawn(stripCanvas.ops),
                         loading |-> Cardinality(Loading(imgs, photos))]
  /\ UNCHANGED << camVars, mountVars, uiVars, seqVars, videoSize, stripVars >>

\* The camera, the <video> element and the countdown sequence.
SeqNext ==
  \/ CameraGranted
  \/ CameraDenied
  \/ \E size \in VideoSizes : LoadedMetadata(size)
  \/ \E p \in PromptChoices : startSequence(p)
  \/ \E iv \in intervals : Tick(iv)
  \/ \E f \in flashes : FlashOff(f)
  \/ \E s \in settles, p \in PromptChoices : Settle(s, p)
  \/ resetBooth

\* The mounted component: the sequence, the filter and overlay buttons, the
\* image loads of the strip and the export.  What a finished render leaves on
\* the canvas stays there through the next sequence, so the runs of the whole
\* component are explored for MaxRenders sequences.
Next ==
  \/ CameraGranted
  \/ CameraDenied
  \/ \E size \in VideoSizes : LoadedMetadata(size)
  \/ \E p \in PromptChoices : sequences < MaxRenders /\ startSequence(p)
  \/ \E iv \in intervals : Tick(iv)
  \/ \E f \in flashes : FlashOff(f)
  \/ \E s \in settles, p \in PromptChoices : Settle(s, p)
  \/ resetBooth
  \/ \E f \in FilterChoices : SelectFilter(f)
  \/ \E o \in OverlayChoices : SelectOverlay(o)
  \/ \E img \in imgs : ImageLoad(img)
  \/ \E img \in imgs : ImageError(img)
  \/ downloadStrip

Spec == Init /\ [][Next]_vars

\* The sequence on its own.  The actions Next has beyond SeqNext change none
\* of camVars, seqVars and videoSize, and no action of SeqNext reads uiVars,
\* stripVars or download to decide them, so every behaviour of the component
\* is, on those variables, a behaviour of SeqSpec.
SeqSpec == Init /\ [][SeqNext]_vars

\* Timer callbacks that are due are eventually run by the event loop.
Timers ==
  \/ \E iv \in intervals : Tick(iv)
  \/ \E f \in flashes : FlashOff(f)
  \/ \E s \in settles, p \in PromptChoices : Settle(s, p)

FairSeqSpec == SeqSpec /\ WF_vars(Timers)

\* The sequence together with the filter and overlay buttons.  The images a
\* review creates stay pending here, one set per sequence, so these runs are
\* explored for MaxRenders sequences as well.
UiNext ==
  \/ CameraGranted
  \/ CameraDenied
  \/ \E size \in VideoSizes : LoadedMetadata(size)
  \/ \E p \in PromptChoices : sequences < MaxRenders /\ startSequence(p)
  \/ \E iv \in intervals : Tick(iv)
  \/ \E f \in flashes : FlashOff(f)
  \/ \E s \in settles, p \in PromptChoices : Settle(s, p)
  \/ resetBooth
  \/ \E f \in FilterChoices : SelectFilter(f)
  \/ \E o \in OverlayChoices : SelectOverlay(o)

UiSpec == Init /\ [][UiNext]_vars

\* One sequence shot with a video of any of the sizes of CropSizes, and the
\* image loads of its strip.
CropNext ==
  \/ CameraGranted
  \/ \E size \in CropSizes : LoadedMetadata(size)
  \/ \E p \in PromptChoices : sequences < MaxRenders /\ startSequence(p)
  \/ \E iv \in intervals : Tick(iv)
  \/ \E f \in flashes : FlashOff(f)
  \/ \E s \in settles, p \in PromptChoices : Settle(s, p)
  \/ \E img \in imgs : ImageLoad(img)
  \/ \E img \in imgs : ImageError(img)

CropSpec == Init /\ [][CropNext]_vars

\* Sessions shot one after the other, each rendered on the same strip canvas.
RenderNext ==
  \/ CameraGranted
  \/ \E size \in VideoSizes : LoadedMetadata(size)
  \/ \E p \in PromptChoices : startSequence(p)
  \/ \E iv \in intervals : Tick(iv)
  \/ \E f \in flashes : FlashOff(f)
  \/ \E s \in settles, p \in PromptChoices : Settle(s, p)
  \/ resetBooth
  \/ \E img \in imgs : ImageLoad(img)
  \/ \E img \in imgs : ImageError(img)

RenderSpec == Init /\ [][RenderNext]_vars

\* The life of the camera effect: the acquisition, a sequence shot meanwhile
\* and the unmount.  What the timer callbacks do once the component is gone
\* is not followed.
MountNext ==
  \/ CameraGranted
  \/ CameraDenied
  \/ Unmount
  \/ \E size \in VideoSizes : mounted /\ LoadedMetadata(size)
  \/ \E p \in PromptChoices : mounted /\ sequences < MaxRenders /\ startSequence(p)
  \/ \E iv \in intervals : mounted /\ Tick(iv)
  \/ \E f \in flashes : mounted /\ FlashOff(f)
  \/ \E s \in settles, p \in PromptChoices : mounted /\ Settle(s, p)

MountSpec == Init /\ [][MountNext]_vars


\* ------------------------------------------------------------ properties
\* An entry of the session that is a captured image.
IsFrame(e) == e.url # "undefined" /\ e.url # "data:,"

Frames(ph) == { k \in 1..Len(ph) : IsFrame(ph[k]) }

CountdownTimers == Cardinality(intervals) + Cardinality(settles)

\* C1: whenever the mode is 'review' the session holds exactly 3 captured
\* frames.
C1_ReviewHoldsThreeFrames ==
  mode = "review" => Len(photos) = 3 /\ Cardinality(Frames(photos)) = 3

C3_AtMostOneCountdownTimer == CountdownTimers <= 1

\* The second sequence of a run has its timer outstanding.
C3_Witness ==
  /\ sequences >= 2
  /\ \E iv \in intervals : iv.seq = sequences /\ iv.count >= 1
  /\ CountdownTimers = 1

C5_NoPlaceholderEntry ==
  \A k \in 1..Len(photos) : photos[k].url # "undefined"

\* C6: a sequence started with the video source ready reaches 'review' after
\* exactly 3 captures with no timer left pending, and 'review' is left only
\* by a reset.
C6_ReachesReview ==
  /\ (mode = "countdown" /\ VideoMounted /\ videoSize # <<0, 0>> /\ captureCalls = 0)
       ~> (/\ mode = "review"
           /\ captureCalls = 3
           /\ Len(photos) = 3
           /\ Cardinality(Frames(photos)) = 3
           /\ CountdownTimers = 0
           /\ flashes = {})
  /\ [][mode = "review" =>
          \/ resetBooth
          \/ mode' = "review" /\ UNCHANGED << photos, intervals, settles, flashes >>]_vars

\* A sequence has run to 'review' with three captured frames.
C6_Witness ==
  /\ mode = "review"
  /\ captureCalls = 3
  /\ Cardinality(Frames(photos)) = 3
  /\ CountdownTimers = 0

\* What a drawing call puts on the canvas depends on the filter, for a fill
\* also on the fill style, for text on the whole text state.
Visible(d) ==
  IF d.op = "drawImage"
    THEN [d EXCEPT !.textAlign = "-", !.font = "-", !.fillStyle = "-"]
  ELSE IF d.op \in {"heart", "footerTitle", "footerDate"}
    THEN d
  ELSE [d EXCEPT !.textAlign = "-", !.font = "-"]

Pixels(ops) == { Visible(ops[k]) : k \in 1..Len(ops) }

\* The strip drawn when the three images load in the order 0, 1, 2.
InOrderOps(ph, f, o) ==
  LET img(i) == [i |-> i, src |-> ph[i + 1], filter |-> f.canvasFilter, overlay |-> o]
      e == StripEffect("review", ph, f, o, TRUE, DefaultCtx,
                       [width |-> 300, height |-> 150, ops |-> <<>>], {})
      l0 == OnLoad(img(0), e.ctx)
      l1 == OnLoad(img(1), l0.ctx)
      l2 == OnLoad(img(2), l1.ctx)
  IN e.canvas.ops \o l0.ops \o l1.ops \o l2.ops

\* All three images of the session in review have been drawn.
RenderComplete ==
  /\ mode = "review"
  /\ Len(photos) = 3
  /\ Cardinality(Frames(photos)) = 3
  /\ Loading(imgs, photos) = {}

\* C7: the composed strip does not depend on the order in which the three
\* image loads complete.
C7_RenderDeterminism ==
  RenderComplete =>
    Pixels(stripCanvas.ops) = Pixels(InOrderOps(photos, currentFilter, currentOverlay))

\* C8: a file is exported only from a strip that holds the three cells of the
\* session and the footer, with no image load of the render outstanding
\* (stated for a session of three captured frames, whose images do load).
C8_ExportIsComplete ==
  (download.done /\ Cardinality(Frames(photos)) = 3) =>
    download.cells = {0, 1, 2} /\ download.footer /\ download.loading = 0

\* C9: the strip canvas is drawn on only while the session holds exactly 3
\* frames.
C9_DrawsOnCompleteSession ==
  [][stripCanvas' # stripCanvas =>
       Len(photos') = 3 /\ Cardinality(Frames(photos')) = 3]_vars

\* C10: a capture attempted on an unavailable or zero-sized source yields no
\* image and no flash.
C10_CaptureFailsOnZeroSize ==
  /\ \A k \in 1..Len(photos) :
       (photos[k].w = 0 \/ photos[k].h = 0) => photos[k].url = "undefined"
  /\ \A f \in flashes :
       \A k \in 1..Len(photos) :
         (photos[k].seq = f.seq /\ photos[k].shot = f.count) => IsFrame(photos[k])


\* C11: in 'review' no capture is made and the session is not changed until
\* resetBooth runs; no countdown timer is pending there.
C11_NoCaptureInReview ==
  /\ [](mode = "review" => intervals = {} /\ settles = {})
  /\ [][mode = "review" => resetBooth \/ UNCHANGED << photos, captureCalls >>]_vars

\* The booth rests in 'review' on the three entries of its session.
C11_Witness ==
  /\ mode = "review"
  /\ Len(photos) = 3
  /\ countdown = <<0>>
  /\ flashes = {}

\* C12: the session holds between 0 and 3 entries.
C12_AtMostThreePhotos == Len(photos) \in 0..3

\* The third entry has just been appended and its settle timeout is pending.
C12_Witness ==
  /\ mode = "countdown"
  /\ Len(photos) = 3
  /\ settles # {}

\* A step that begins iteration 0 of a sequence.
BeginsSequence ==
  \E iv \in intervals' \ intervals : iv.count = 0 /\ iv.timer = 3

\* C13: a sequence begins only from 'idle' (never from 'countdown' or
\* 'review'), and the step empties the session, sets the mode to 'countdown'
\* and shows the countdown of iteration 0.
C13_StartOnlyFromIdle ==
  /\ [][BeginsSequence =>
          /\ mode = "idle"
          /\ photos' = <<>>
          /\ mode' = "countdown"
          /\ countdown' = <<3>>
          /\ intervals' = { [seq |-> sequences', count |-> 0, timer |-> 3] }]_vars
  /\ [][(mode # "countdown" /\ mode' = "countdown") => BeginsSequence]_vars

\* A second sequence has just been started, on an empty session.
C13_Witness ==
  /\ sequences = 2
  /\ mode = "countdown"
  /\ photos = <<>>
  /\ intervals = { [seq |-> 2, count |-> 0, timer |-> 3] }

\* C14: once camera acquisition has failed the error stays set, acquisition
\* is not attempted again, no stream appears and no sequence is started.
C14_ErrorIsBlocking ==
  /\ [](error # "null" => camera = "done" /\ stream = "null")
  /\ [][error # "null" =>
          /\ error' = error
          /\ UNCHANGED << camera, stream, sequences >>
          /\ ~BeginsSequence]_vars

\* The acquisition has failed while the booth was idle.
C14_Witness == error # "null" /\ camera = "done" /\ mode = "idle"

\* C15: one filter and one overlay of the catalogs are selected in every
\* state; the first selection is the identity filter and the overlay 'none';
\* a selection changes only by its own button, and to the entry chosen.
C15_SingleSelection ==
  /\ currentFilter = FILTERS[1] /\ FILTERS[1].canvasFilter = "none"
  /\ currentOverlay = OVERLAYS[1] /\ OVERLAYS[1] = "none"
  /\ [](/\ Cardinality({ k \in 1..Len(FILTERS) : FILTERS[k] = currentFilter }) = 1
        /\ Cardinality({ k \in 1..Len(OVERLAYS) : OVERLAYS[k] = currentOverlay }) = 1)
  /\ [][/\ currentFilter' # currentFilter =>
             /\ IdleControlsShown
             /\ SelectFilter(currentFilter')
             /\ currentOverlay' = currentOverlay
        /\ currentOverlay' # currentOverlay =>
             /\ IdleControlsShown
             /\ SelectOverlay(currentOverlay')
             /\ currentFilter' = currentFilter
        /\ \A f \in FilterChoices : SelectFilter(f) => currentFilter' = f
        /\ \A o \in OverlayChoices : SelectOverlay(o) => currentOverlay' = o]_vars

\* A second choice has replaced the first, and a session was shot with it.
C15_Witness ==
  /\ currentFilter = FILTERS[2]
  /\ currentOverlay = OVERLAYS[4]
  /\ mode = "review"
  /\ Len(photos) = 3

\* toDataURL('image/jpeg', 0.95) encodes with JPEG at quality 0.95, a lossy
\* encoding; the export's toDataURL() uses the default type, PNG.
Lossy(url) == url = "data:image/jpeg;q=0.95"

\* C16: every frame held by the session was encoded losslessly by the
\* capture step.
C16_FramesLossless ==
  \A k \in Frames(photos) : ~Lossy(photos[k].url)

\* C17: the footer text is drawn only after the three photo cells of the
\* session have been drawn (stated for a session of three captured frames).
C17_FooterAfterCells ==
  (mode = "review" /\ Cardinality(Frames(photos)) = 3) =>
    \A k \in 1..Len(stripCanvas.ops) :
      stripCanvas.ops[k].op \in {"footerTitle", "footerDate"} =>
        \A i \in 0..2 :
          \E j \in 1..(k - 1) :
            /\ stripCanvas.ops[j].op = "drawImage"
            /\ stripCanvas.ops[j].i = i
            /\ stripCanvas.ops[j].seq = photos[i + 1].seq

\* C18: iteration i shows the countdown 3, 2, 1, 0 in that order, calls
\* capturePhoto once, on the tick that shows 0, and what the call returns is
\* entry i of the session; iteration i + 1 begins only when the settle timeout
\* of iteration i runs, after its flash timeout; a session that reaches
\* 'review' has made exactly 3 captures.
C18_CountdownOrder ==
  /\ [](/\ \A k \in 1..Len(photos) :
             photos[k].shot = k - 1 /\ photos[k].seq = sequences
        /\ \A iv \in intervals :
             /\ iv.timer \in 1..3
             /\ countdown = <<iv.timer>>
             /\ iv.count = Len(photos)
             /\ iv.count \in 0..2
        /\ \A st \in settles : countdown = <<0>> /\ st.count = Len(photos) - 1
        /\ mode # "idle" => captureCalls = Len(photos)
        /\ mode = "review" => captureCalls = 3)
  /\ [][countdown' # countdown =>
          \/ countdown' = <<>> /\ resetBooth
          \/ countdown' = <<3>> /\ countdown \in { <<>>, <<0>> }
          \/ /\ countdown \in { <<3>>, <<2>>, <<1>> }
             /\ countdown' = << countdown[1] - 1 >>]_vars
  /\ [][captureCalls' # captureCalls =>
          \/ BeginsSequence /\ captureCalls' = 0
          \/ /\ captureCalls' = captureCalls + 1
             /\ countdown = <<1>> /\ countdown' = <<0>>
             /\ Len(photos') = Len(photos) + 1]_vars
  /\ [][(countdown = <<1>> /\ countdown' = <<0>>) =>
          captureCalls' = captureCalls + 1]_vars
  /\ [][\A iv \in intervals' \ intervals :
          (iv.timer = 3 /\ iv.count > 0) =>
            LET prev == [seq |-> iv.seq, count |-> iv.count - 1]
            IN /\ prev \in settles /\ prev \notin settles'
               /\ prev \notin flashes
               /\ Len(photos) = iv.count]_vars

\* The second iteration has shown 3, 2, 1, 0 and appended entry 1.
C18_Witness ==
  /\ countdown = <<0>>
  /\ Len(photos) = 2
  /\ photos[2].shot = 1
  /\ IsFrame(photos[2])
  /\ captureCalls = 2
  /\ settles = { [seq |-> sequences, count |-> 1] }

\* C19: every decoration (vignette, hearts) and the footer text are drawn
\* with the context filter 'none'.
C19_DecorationsUnfiltered ==
  \A k \in 1..Len(stripCanvas.ops) :
    stripCanvas.ops[k].op \in {"vignette", "heart", "footerTitle", "footerDate"} =>
      stripCanvas.ops[k].filter = "none"

\* C20: while a countdown is on screen the prompt is visible exactly while
\* the timer shows 3 or 2 (not at 1 and not at 0); it is an entry of PROMPTS
\* and changes only on the step that begins an iteration.
C20_PromptWindow ==
  /\ []((mode = "countdown" /\ ~ErrorScreen) =>
          /\ PromptVisible <=> countdown \in { <<3>>, <<2>> }
          /\ \E k \in 1..Len(PROMPTS) : currentPrompt = PROMPTS[k])
  /\ [][currentPrompt' # currentPrompt =>
          /\ countdown' = <<3>>
          /\ \E iv \in intervals' \ intervals : iv.timer = 3]_vars
  /\ [][intervals # {} => currentPrompt' = currentPrompt]_vars

\* The prompt of the second iteration is on screen with the timer at 2.
C20_Witness ==
  /\ PromptVisible
  /\ countdown = <<2>>
  /\ Len(photos) = 1
  /\ currentPrompt = PROMPTS[2]

\* C21: the source rectangle of every cell drawn has the aspect ratio
\* photoWidth : photoHeight, lies inside the source image, spans the source
\* in the axis that is not cropped and is centred in the other.
C21_CropCorrect ==
  \A k \in 1..Len(stripCanvas.ops) :
    stripCanvas.ops[k].op = "drawImage" =>
      LET r == stripCanvas.ops[k].src
          w == << r.sWidth, 1 >>
          h == << r.sHeight, 1 >>
          zero == << 0, 1 >>
          Eq(a, b) == a[1] * b[2] = b[1] * a[2]
          Add(a, b) == << a[1] * b[2] + b[1] * a[2], a[2] * b[2] >>
      IN /\ r.sWidth >= 1 /\ r.sHeight >= 1
         /\ r.sx[2] > 0 /\ r.sy[2] > 0 /\ r.sW[2] > 0 /\ r.sH[2] > 0
         /\ Eq(Mul(r.sW, << photoHeight, 1 >>), Mul(r.sH, << photoWidth, 1 >>))
         /\ ~Gt(zero, r.sx) /\ ~Gt(zero, r.sy)
         /\ Gt(r.sW, zero) /\ Gt(r.sH, zero)
         /\ ~Gt(Add(r.sx, r.sW), w) /\ ~Gt(Add(r.sy, r.sH), h)
         /\ \/ Eq(r.sW, w) /\ Eq(r.sx, zero)
            \/ Eq(r.sH, h) /\ Eq(r.sy, zero)
         /\ Eq(Add(Mul(<< 2, 1 >>, r.sx), r.sW), w)
         /\ Eq(Add(Mul(<< 2, 1 >>, r.sy), r.sH), h)

\* The three cells of a strip shot with a source taller than 4:3, cropped at
\* top and bottom.
C21_Witness ==
  /\ mode = "review"
  /\ \A i \in 0..2 :
       \E k \in 1..Len(stripCanvas.ops) :
         /\ stripCanvas.ops[k].op = "drawImage"
         /\ stripCanvas.ops[k].i = i
         /\ stripCanvas.ops[k].src.sWidth = 1
         /\ stripCanvas.ops[k].src.sHeight = MaxSide
         /\ Gt(stripCanvas.ops[k].src.sy, << 0, 1 >>)

\* C22: every render sets the strip canvas to 760 x 1570, the values of
\* photoWidth + 2 * sidePadding and topPadding + 3 * photoHeight + 2 * gap +
\* bottomPadding; cell i is drawn at x = sidePadding and y = topPadding +
\* i * (photoHeight + gap), inside the canvas, so that cells do not overlap
\* each other or the footer region, where the footer text is drawn.
C22_StripLayout ==
  LET ops == stripCanvas.ops
      cells == { k \in 1..Len(ops) : ops[k].op = "drawImage" }
      footers == { k \in 1..Len(ops) : ops[k].op \in {"footerTitle", "footerDate"} }
      footerTop == stripCanvas.height - bottomPadding
  IN /\ photoWidth + (2 * sidePadding) = 760
     /\ topPadding + (3 * photoHeight) + (2 * gap) + bottomPadding = 1570
     /\ \/ stripCanvas = [width |-> 300, height |-> 150, ops |-> <<>>]
        \/ /\ stripCanvas.width = 760
           /\ stripCanvas.height = 1570
           /\ Len(ops) >= 1 /\ ops[1].op = "fillRect"
     /\ \A k \in cells :
          /\ ops[k].i \in 0..2
          /\ ops[k].x = sidePadding
          /\ ops[k].y = topPadding + ops[k].i * (photoHeight + gap)
          /\ ops[k].x >= 0 /\ ops[k].x + photoWidth <= stripCanvas.width
          /\ ops[k].y >= 0 /\ ops[k].y + photoHeight <= footerTop
     /\ \A j, k \in cells :
          ops[j].i # ops[k].i =>
            \/ ops[j].y + photoHeight <= ops[k].y
            \/ ops[k].y + photoHeight <= ops[j].y
     /\ \A k \in footers :
          ops[k].y > footerTop /\ ops[k].y <= stripCanvas.height

\* The strip of a second session has been rendered in full on the canvas
\* the first session was rendered on.
C22_Witness ==
  /\ sequences = 2
  /\ mode = "review"
  /\ stripCanvas.width = 760 /\ stripCanvas.height = 1570
  /\ \A i \in 0..2 :
       \E k \in 1..Len(stripCanvas.ops) :
         /\ stripCanvas.ops[k].op = "drawImage"
         /\ stripCanvas.ops[k].i = i
         /\ stripCanvas.ops[k].seq = 2
  /\ FooterDrawn(stripCanvas.ops)

\* C23: once the acquisition has completed and the component has unmounted,
\* no acquired stream is left with live tracks.
C23_StreamStoppedAfterUnmount ==
  (~mounted /\ camera = "done") => tracks # "live"

====
